---- MODULE Spec2Model ----
(***************************************************************************)
(* A model of yaml_reading_core: the YamlFile document (dot-path get / set *)
(* / exists_key, recursive merge, save) and the YamlReadingCore loader.    *)
(*                                                                         *)
(* Python dicts are mutable objects handled by reference, so the model     *)
(* keeps a heap of dict objects: heap[a] is the dict at address a, a       *)
(* function from keys to values, and a value is None, an int, a list or a  *)
(* reference to a dict.  A YamlFile holds its data as such a value.        *)
(***************************************************************************)
EXTENDS Integers, Sequences, FiniteSets, TLC

VARIABLES
    heap,   \* the dict objects: heap[a] is the dict at address a
    docs,   \* the YamlFile objects constructed so far
    fs,     \* the files on disk
    last,   \* the last call: its arguments and its outcome
    pre,    \* the heap as it was when the last call began
    calls   \* calls made

vars == <<heap, docs, fs, last, pre, calls>>

(***************************************************************************)
(* Bounds of the model.                                                    *)
(***************************************************************************)
\* longest key path string a caller passes, in characters
MaxPathLen == 3
\* dict objects in one YAML text or one dict literal of the caller
MaxObjs == 2
\* API calls made after the first document is constructed
MaxCalls == 1

(***************************************************************************)
(* Python values.                                                          *)
(***************************************************************************)
None == [t |-> "none", x |-> 0]
IntV(n) == [t |-> "int", x |-> n]
BoolV(b) == [t |-> "bool", x |-> IF b THEN 1 ELSE 0]
\* a non-empty list such as [1, 2]; the code never looks inside a list
ListV == [t |-> "list", x |-> 2]
Ref(a) == [t |-> "ref", x |-> a]

\* isinstance(v, dict)
IsDict(v) == v.t = "ref"

\* the empty dict {}
EmptyDict == [k \in {} |-> None]

\* Python truthiness, as used by `data or {}` and `not target_path`
Truthy(h, v) ==
    CASE v.t = "none" -> FALSE
      [] v.t = "int" -> v.x # 0
      [] v.t = "bool" -> v.x # 0
      [] v.t = "list" -> v.x # 0
      [] v.t = "ref" -> DOMAIN h[v.x] # {}

(***************************************************************************)
(* Strings are sequences of characters.  A key_path argument should be a   *)
(* string but may be anything: str tells whether it is a string at all, s  *)
(* is its text.                                                            *)
(***************************************************************************)
Chars == {"a", "b", "."}
Sep == "."
Strings(n) == UNION {[1..k -> Chars] : k \in 0..n}
Str(s) == [str |-> TRUE, s |-> s]
NotStr == [str |-> FALSE, s |-> <<>>]

\* the index of the first separator of s, 0 when there is none
RECURSIVE FindSep(_, _)
FindSep(s, i) ==
    IF i > Len(s) THEN 0
    ELSE IF s[i] = Sep THEN i
    ELSE FindSep(s, i + 1)

\* str.split('.'): the segments between separators; "" splits to [""]
RECURSIVE Split(_)
Split(s) ==
    LET i == FindSep(s, 1) IN
    IF i = 0 THEN <<s>>
    ELSE <<SubSeq(s, 1, i - 1)>> \o Split(SubSeq(s, i + 1, Len(s)))

\* the outcome of a call
Return(v) == [kind |-> "return", v |-> v, exc |-> "-"]
Raise(e) == [kind |-> "raise", v |-> None, exc |-> e]

(***************************************************************************)
(* YamlFile: navigation.                                                   *)
(***************************************************************************)
\* Walk with value.get(key) in place of the `key in value` test: a missing
\* key of a mapping reads as None
RECURSIVE WalkMissingAsNone(_, _, _)
WalkMissingAsNone(h, value, keys) ==
    IF keys = <<>> THEN [found |-> TRUE, v |-> value]
    ELSE IF IsDict(value)
         THEN IF Head(keys) \in DOMAIN h[value.x]
              THEN WalkMissingAsNone(h, h[value.x][Head(keys)], Tail(keys))
              ELSE WalkMissingAsNone(h, None, Tail(keys))
         ELSE [found |-> FALSE, v |-> None]

\* the loop of exists_key and get: walk value down the keys
RECURSIVE Walk(_, _, _)
Walk(h, value, keys) ==
    IF keys = <<>> THEN [found |-> TRUE, v |-> value]
    ELSE IF IsDict(value) /\ Head(keys) \in DOMAIN h[value.x]
         THEN Walk(h, h[value.x][Head(keys)], Tail(keys))
         ELSE [found |-> FALSE, v |-> None]

\* YamlFile.exists_key: a non-string key_path has no split (AttributeError)
exists_key(h, data, key_path) ==
    IF ~key_path.str THEN Return(BoolV(FALSE))
    ELSE Return(BoolV(Walk(h, data, Split(key_path.s)).found))

\* YamlFile.get
get(h, data, key_path, default) ==
    IF ~key_path.str THEN Return(default)
    ELSE LET w == Walk(h, data, Split(key_path.s)) IN
         IF w.found THEN Return(w.v) ELSE Return(default)

\* YamlFile.has_value
has_value(h, data, key_path) ==
    LET r == get(h, data, key_path, None) IN
    IF r.kind = "raise" THEN r ELSE Return(BoolV(r.v # None))

(***************************************************************************)
(* YamlFile.set.                                                           *)
(***************************************************************************)
\* d[k] = v on a dict
Put(d, k, v) == [j \in DOMAIN d \cup {k} |-> IF j = k THEN v ELSE d[j]]

\* a new dict object: its address and the heap holding it
Alloc(h, d) == [a |-> Len(h) + 1, h |-> Append(h, d)]

\* SetWalk with `current[key] = {}` done for every intermediate segment
RECURSIVE SetWalkAlwaysFresh(_, _, _, _)
SetWalkAlwaysFresh(h, current, keys, value) ==
    IF Len(keys) = 1
    THEN [h EXCEPT ![current] = Put(@, keys[1], value)]
    ELSE LET n == Alloc(h, EmptyDict) IN
         SetWalkAlwaysFresh([n.h EXCEPT ![current] = Put(@, Head(keys), Ref(n.a))],
                            n.a, Tail(keys), value)

\* SetWalk without the `elif not isinstance(current[key], dict)` branch: the
\* walk stops at an intermediate segment that holds a non-mapping
RECURSIVE SetWalkKeepsScalar(_, _, _, _)
SetWalkKeepsScalar(h, current, keys, value) ==
    IF Len(keys) = 1
    THEN [h EXCEPT ![current] = Put(@, keys[1], value)]
    ELSE LET key == Head(keys) IN
         IF key \in DOMAIN h[current]
         THEN IF IsDict(h[current][key])
              THEN SetWalkKeepsScalar(h, h[current][key].x, Tail(keys), value)
              ELSE h
         ELSE LET n == Alloc(h, EmptyDict) IN
              SetWalkKeepsScalar([n.h EXCEPT ![current] = Put(@, key, Ref(n.a))],
                                 n.a, Tail(keys), value)

\* the loop and the final assignment of set, current being a dict
RECURSIVE SetWalk(_, _, _, _)
SetWalk(h, current, keys, value) ==
    IF Len(keys) = 1
    THEN [h EXCEPT ![current] = Put(@, keys[1], value)]
    ELSE LET key == Head(keys) IN
         IF key \in DOMAIN h[current] /\ IsDict(h[current][key])
         THEN SetWalk(h, h[current][key].x, Tail(keys), value)
         ELSE LET n == Alloc(h, EmptyDict) IN
              SetWalk([n.h EXCEPT ![current] = Put(@, key, Ref(n.a))],
                      n.a, Tail(keys), value)

\* YamlFile.set: the heap after the call.  A non-string key_path, and data
\* that is not a dict (a TypeError at the first lookup or assignment), end in
\* the except clause with nothing changed.
set(h, data, key_path, value) ==
    IF ~key_path.str THEN h
    ELSE IF ~IsDict(data) THEN h
    ELSE SetWalk(h, data.x, Split(key_path.s), value)

(***************************************************************************)
(* YAML texts and dict literals.  A text is what it parses to: a root      *)
(* value and the dict objects of the document, numbered from 1 and         *)
(* referring to each other by these numbers.  Two keys may hold the same   *)
(* object (a YAML alias).                                                  *)
(***************************************************************************)
\* the dicts reachable from value v
RECURSIVE ReachFrom(_, _, _)
ReachFrom(h, frontier, seen) ==
    IF frontier = {} THEN seen
    ELSE LET a == CHOOSE b \in frontier : TRUE
             next == {h[a][k].x : k \in {j \in DOMAIN h[a] : IsDict(h[a][j])}}
         IN ReachFrom(h, (frontier \cup next) \ (seen \cup {a}), seen \cup {a})

Reach(h, v) == IF IsDict(v) THEN ReachFrom(h, {v.x}, {}) ELSE {}

\* dict d with every reference a replaced by f[a]
Relabel(d, f) ==
    [k \in DOMAIN d |-> IF IsDict(d[k]) THEN Ref(f[d[k].x]) ELSE d[k]]

Text(root, objs) == [valid |-> TRUE, root |-> root, objs |-> objs]
\* a text that does not parse (yaml.YAMLError)
BadText == [valid |-> FALSE, root |-> None, objs |-> <<>>]

\* yaml.safe_dump(data): the text of data, shared objects kept shared
Dump(h, data) ==
    LET R == Reach(h, data)
        rk == [a \in R |-> Cardinality({b \in R : b <= a})]
        at == [i \in 1..Cardinality(R) |-> CHOOSE a \in R : rk[a] = i]
    IN Text(IF IsDict(data) THEN Ref(rk[data.x]) ELSE data,
            [i \in 1..Cardinality(R) |-> Relabel(h[at[i]], rk)])

\* yaml.safe_load(text) for a text that parses, and equally a dict literal
\* the caller evaluates: fresh objects on the heap, and the root value
Load(h, text) ==
    LET sh == [i \in 1..Len(text.objs) |-> Len(h) + i] IN
    [h |-> h \o [i \in 1..Len(text.objs) |-> Relabel(text.objs[i], sh)],
     v |-> IF IsDict(text.root) THEN Ref(sh[text.root.x]) ELSE text.root]

(***************************************************************************)
(* File paths: None, a str or a pathlib.Path.                              *)
(***************************************************************************)
PNone == [kind |-> "none", s |-> <<>>]
PStr(s) == [kind |-> "str", s |-> s]
PPath(s) == [kind |-> "path", s |-> s]
\* truthiness of a file path: None and "" are falsy, a Path never is
PathTruthy(p) == p.kind = "path" \/ (p.kind = "str" /\ p.s # <<>>)
\* Path(p).  Path("") is the current directory
Dir == <<".">>
PathName(p) == IF p.s = <<>> THEN Dir ELSE p.s
FileNames == {<<"a">>}
NoFile == [exists |-> FALSE, text |-> Text(None, <<>>)]
File(text) == [exists |-> TRUE, text |-> text]

(***************************************************************************)
(* YamlFile.__init__                                                       *)
(***************************************************************************)
\* self.data = data or {} ; the heap grows by the fresh {} when data is falsy
YamlFile(h, data, file_path) ==
    IF Truthy(h, data)
    THEN [h |-> h, doc |-> [data |-> data, file_path |-> file_path]]
    ELSE LET n == Alloc(h, EmptyDict) IN
         [h |-> n.h, doc |-> [data |-> Ref(n.a), file_path |-> file_path]]

\* a YamlFile object as a value: the index of the document in docs
DocV(i) == [t |-> "doc", x |-> i]

(***************************************************************************)
(* YamlFile.merge                                                          *)
(***************************************************************************)
RECURSIVE merge_dict_recursive(_, _, _, _)
RECURSIVE MergeLoop(_, _, _, _, _)

\* _merge_dict_recursive with result = base in place of base.copy()
MergeInPlace(h, base, override, stack) ==
    IF <<base, override>> \in stack THEN [h |-> h, a |-> 0, err |-> TRUE]
    ELSE MergeLoop(h, base, override, DOMAIN h[override],
                   stack \cup {<<base, override>>})

\* _merge_dict_recursive as dict.update: the override value replaces the base
\* value, also when both are mappings
MergeShallow(h, base, override, stack) ==
    [h |-> h, a |-> override, err |-> FALSE]

\* the loop shared by merge and _merge_dict_recursive: for each key of the
\* override dict, assign into the dict result.  stack holds the pairs
\* (base, override) of the calls of _merge_dict_recursive in progress.
MergeLoop(h, result, override, keys, stack) ==
    IF keys = {} THEN [h |-> h, a |-> result, err |-> FALSE]
    ELSE LET key == CHOOSE k \in keys : TRUE
             value == h[override][key]
         IN IF key \in DOMAIN h[result] /\ IsDict(h[result][key]) /\ IsDict(value)
            THEN LET m == merge_dict_recursive(h, h[result][key].x, value.x, stack)
                 IN IF m.err THEN m
                    ELSE MergeLoop([m.h EXCEPT ![result] = Put(@, key, Ref(m.a))],
                                   result, override, keys \ {key}, stack)
            ELSE MergeLoop([h EXCEPT ![result] = Put(@, key, value)],
                           result, override, keys \ {key}, stack)

\* YamlFile._merge_dict_recursive on two dicts: result = base.copy(), then the
\* loop.  A pair already on the stack recurses for ever: RecursionError (err).
merge_dict_recursive(h, base, override, stack) ==
    IF <<base, override>> \in stack THEN [h |-> h, a |-> 0, err |-> TRUE]
    ELSE LET n == Alloc(h, h[base])
         IN MergeLoop(n.h, n.a, override, DOMAIN h[override],
                      stack \cup {<<base, override>>})

\* the except clause of merge: YamlFile(self.data.copy(), self.file_path).
\* An int has no copy(): the AttributeError leaves the handler.
MergeFallback(h, doc) ==
    IF IsDict(doc.data)
    THEN LET n == Alloc(h, h[doc.data.x])
             y == YamlFile(n.h, Ref(n.a), doc.file_path)
         IN [h |-> y.h, made |-> TRUE, doc |-> y.doc, ret |-> Return(None)]
    ELSE IF doc.data.t = "list"
    THEN [h |-> h, made |-> TRUE, doc |-> doc, ret |-> Return(None)]
    ELSE [h |-> h, made |-> FALSE, doc |-> doc, ret |-> Raise("AttributeError")]

\* YamlFile.merge: the heap afterwards, whether a document was made, and it
merge(h, doc, override_data) ==
    IF ~IsDict(doc.data)
    THEN \* a list is copied and then fails at result[key] = value, or has
         \* nothing to do; an int fails at copy(): the except clause either way
         MergeFallback(h, doc)
    ELSE IF ~IsDict(override_data)
    THEN \* override_data.items(): AttributeError
         MergeFallback(h, doc)
    ELSE LET n == Alloc(h, h[doc.data.x])
             m == MergeLoop(n.h, n.a, override_data.x,
                            DOMAIN h[override_data.x], {})
         IN IF m.err
            THEN [h |-> h, made |-> FALSE, doc |-> doc,
                  ret |-> Raise("RecursionError")]
            ELSE LET y == YamlFile(m.h, Ref(n.a), doc.file_path)
                 IN [h |-> y.h, made |-> TRUE, doc |-> y.doc,
                     ret |-> Return(None)]

(***************************************************************************)
(* YamlFile.to_dict                                                        *)
(***************************************************************************)
\* self.data.copy(): a new dict with the same entries
to_dict(h, data) ==
    IF IsDict(data)
    THEN LET n == Alloc(h, h[data.x]) IN [h |-> n.h, ret |-> Return(Ref(n.a))]
    ELSE IF data.t = "list" THEN [h |-> h, ret |-> Return(data)]
    ELSE [h |-> h, ret |-> Raise("AttributeError")]

(***************************************************************************)
(* YamlFile.save                                                           *)
(***************************************************************************)
\* what the operating system does with the write
Outcomes == {"ok", "open_fails", "dump_fails"}

\* the files afterwards and the outcome of save(file_path)
save(h, f, doc, file_path, outcome) ==
    LET target_path == IF PathTruthy(file_path) THEN file_path ELSE doc.file_path
    IN IF ~PathTruthy(target_path) THEN [fs |-> f, ret |-> Return(BoolV(FALSE))]
       \* Path(file_path) of the argument, not of target_path: Path(None) is a
       \* TypeError, which the except clause does not name
       ELSE IF file_path.kind = "none" THEN [fs |-> f, ret |-> Raise("TypeError")]
       \* open() of a directory: IsADirectoryError, an IOError
       ELSE IF PathName(file_path) \notin FileNames \/ outcome = "open_fails"
       THEN [fs |-> f, ret |-> Return(BoolV(FALSE))]
       ELSE IF outcome = "dump_fails"
       THEN [fs |-> [f EXCEPT ![PathName(file_path)] = File(Text(None, <<>>))],
             ret |-> Return(BoolV(FALSE))]
       ELSE [fs |-> [f EXCEPT ![PathName(file_path)] = File(Dump(h, doc.data))],
             ret |-> Return(BoolV(TRUE))]

(***************************************************************************)
(* YamlReadingCore                                                         *)
(***************************************************************************)
\* read_yaml_str: `yaml.safe_load(yaml_str) or {}`, then YamlFile(data)
read_yaml_str(h, text) ==
    IF ~text.valid
    THEN [h |-> h, made |-> FALSE, doc |-> [data |-> None, file_path |-> PNone],
          ret |-> Raise("ValueError")]
    ELSE LET l == Load(h, text)
             y == YamlFile(l.h, l.v, PNone)
         IN [h |-> y.h, made |-> TRUE, doc |-> y.doc, ret |-> Return(None)]

\* read_yaml: a missing file, a directory, an unreadable file and a text that
\* does not parse all end as FileNotFoundError; Path(None) is a TypeError
read_yaml(h, f, file_path, readable) ==
    LET none == [data |-> None, file_path |-> PNone] IN
    IF file_path.kind = "none"
    THEN [h |-> h, made |-> FALSE, doc |-> none, ret |-> Raise("TypeError")]
    ELSE IF \/ PathName(file_path) \notin FileNames
            \/ ~f[PathName(file_path)].exists
            \/ ~readable
            \/ ~f[PathName(file_path)].text.valid
    THEN [h |-> h, made |-> FALSE, doc |-> none,
          ret |-> Raise("FileNotFoundError")]
    ELSE LET l == Load(h, f[PathName(file_path)].text)
             y == YamlFile(l.h, l.v, PPath(PathName(file_path)))
         IN [h |-> y.h, made |-> TRUE, doc |-> y.doc, ret |-> Return(None)]

(***************************************************************************)
(* Inputs.                                                                 *)
(***************************************************************************)
KeyPaths == {Str(s) : s \in Strings(MaxPathLen)} \cup {NotStr}
Scalars == {None, IntV(1)}
Refs(h) == {Ref(a) : a \in DOMAIN h}
\* what a caller may pass as a value: a scalar, a list, or a dict it holds
Values(h) == Scalars \cup {ListV} \cup Refs(h)
\* the keys of the dicts of a text or literal
TextKeys == {<<"a">>, <<"b">>}

\* the dicts of a text: finite nested mappings, so object i refers only to
\* later objects
TextDicts(i) ==
    UNION {[D -> Scalars \cup {Ref(j) : j \in (i + 1)..MaxObjs}] :
             D \in SUBSET TextKeys}
Graphs ==
    {g \in [1..MaxObjs -> UNION {TextDicts(i) : i \in 1..MaxObjs}] :
        \A i \in 1..MaxObjs : g[i] \in TextDicts(i)}
\* texts whose root is a mapping, and dict literals
Mappings == {Text(Ref(1), g) : g \in Graphs}
\* texts that parse: an empty document, scalars, a sequence, mappings
ValidTexts ==
    {Text(r, <<>>) : r \in {None, IntV(0), IntV(1), ListV}} \cup Mappings
Texts == ValidTexts \cup {BadText}
FileArgs == {PNone, PStr(<<>>), PStr(<<"a">>)}

NoCall == [op |-> "init", doc |-> 0, key_path |-> NotStr, value |-> None,
           file_path |-> PNone, env |-> "-", ret |-> Return(None)]

\* the first document, as read_yaml_str or read_yaml (of file "a") returns it
Init ==
    \E text \in ValidTexts, fromFile \in BOOLEAN :
        LET l == Load(<<>>, text)
            y == YamlFile(l.h, l.v, IF fromFile THEN PPath(<<"a">>) ELSE PNone)
        IN /\ heap = y.h
           /\ docs = <<y.doc>>
           /\ fs = [f \in FileNames |-> IF fromFile THEN File(text) ELSE NoFile]
           /\ last = NoCall
           /\ pre = y.h
           /\ calls = 0

\* the bookkeeping of a call that began with heap h
CallEnv(h, op, d, key_path, value, file_path, env, ret) ==
    /\ calls' = calls + 1
    /\ pre' = h
    /\ last' = [op |-> op, doc |-> d, key_path |-> key_path, value |-> value,
                file_path |-> file_path, env |-> env, ret |-> ret]

Call(h, op, d, key_path, value, file_path, ret) ==
    CallEnv(h, op, d, key_path, value, file_path, "-", ret)

\* a call that returns a new document (or raises): the document joins docs
Made(h, op, d, value, file_path, r) ==
    /\ heap' = r.h
    /\ docs' = IF r.made THEN Append(docs, r.doc) ELSE docs
    /\ Call(h, op, d, NotStr, value, file_path,
            IF r.made THEN Return(DocV(Len(docs) + 1)) ELSE r.ret)

Get ==
    /\ calls < MaxCalls
    /\ \E d \in DOMAIN docs, p \in KeyPaths, default \in Scalars :
        /\ Call(heap, "get", d, p, default, PNone,
                get(heap, docs[d].data, p, default))
        /\ UNCHANGED <<heap, docs, fs>>

ExistsKey ==
    /\ calls < MaxCalls
    /\ \E d \in DOMAIN docs, p \in KeyPaths :
        /\ Call(heap, "exists_key", d, p, None, PNone,
                exists_key(heap, docs[d].data, p))
        /\ UNCHANGED <<heap, docs, fs>>

HasValue ==
    /\ calls < MaxCalls
    /\ \E d \in DOMAIN docs, p \in KeyPaths :
        /\ Call(heap, "has_value", d, p, None, PNone,
                has_value(heap, docs[d].data, p))
        /\ UNCHANGED <<heap, docs, fs>>

Set ==
    /\ calls < MaxCalls
    /\ \E d \in DOMAIN docs, p \in KeyPaths, v \in Values(heap) :
        /\ Call(heap, "set", d, p, v, PNone, Return(None))
        /\ heap' = set(heap, docs[d].data, p, v)
        /\ UNCHANGED <<docs, fs>>

\* merge with a value the caller holds
Merge ==
    /\ calls < MaxCalls
    /\ \E d \in DOMAIN docs, v \in Values(heap) :
        /\ Made(heap, "merge", d, v, PNone, merge(heap, docs[d], v))
        /\ UNCHANGED fs

\* merge with a dict literal: base.merge({...})
MergeLiteral ==
    /\ calls < MaxCalls
    /\ \E d \in DOMAIN docs, lit \in Mappings :
        LET l == Load(heap, lit) IN
        /\ Made(l.h, "merge", d, l.v, PNone, merge(l.h, docs[d], l.v))
        /\ UNCHANGED fs

ToDict ==
    /\ calls < MaxCalls
    /\ \E d \in DOMAIN docs :
        LET r == to_dict(heap, docs[d].data) IN
        /\ Call(heap, "to_dict", d, NotStr, None, PNone, r.ret)
        /\ heap' = r.h
        /\ UNCHANGED <<docs, fs>>

Save ==
    /\ calls < MaxCalls
    /\ \E d \in DOMAIN docs, fp \in FileArgs, outcome \in Outcomes :
        LET r == save(heap, fs, docs[d], fp, outcome) IN
        /\ CallEnv(heap, "save", d, NotStr, None, fp, outcome, r.ret)
        /\ fs' = r.fs
        /\ UNCHANGED <<heap, docs>>

\* YamlFile(data, file_path), called directly
Construct ==
    /\ calls < MaxCalls
    /\ \E v \in Values(heap) \cup {IntV(0)}, fp \in {PNone, PStr(<<"a">>)} :
        LET y == YamlFile(heap, v, fp) IN
        /\ Made(heap, "YamlFile", 0, v, fp,
                [h |-> y.h, made |-> TRUE, doc |-> y.doc, ret |-> Return(None)])
        /\ UNCHANGED fs

ReadYamlStr ==
    /\ calls < MaxCalls
    /\ \E text \in Texts :
        /\ Made(heap, "read_yaml_str", 0, None, PNone, read_yaml_str(heap, text))
        /\ UNCHANGED fs

ReadYaml ==
    /\ calls < MaxCalls
    /\ \E fp \in FileArgs, readable \in BOOLEAN :
        /\ Made(heap, "read_yaml", 0, None, fp,
                read_yaml(heap, fs, fp, readable))
        /\ UNCHANGED fs

Next ==
    \/ Get
    \/ ExistsKey
    \/ HasValue
    \/ Set
    \/ Merge
    \/ MergeLiteral
    \/ ToDict
    \/ Save
    \/ Construct
    \/ ReadYamlStr
    \/ ReadYaml

Spec == Init /\ [][Next]_vars

(***************************************************************************)
(* The vocabulary of the properties.  A document holds a finite nested     *)
(* mapping (section 3 of the specification); on the heap that is a graph   *)
(* of dicts without a cycle, in which an object may still be held by two   *)
(* keys.                                                                   *)
(***************************************************************************)
\* no dict reachable from v contains itself, at any depth
RECURSIVE AcyclicFrom(_, _, _)
AcyclicFrom(h, a, path) ==
    /\ a \notin path
    /\ \A k \in DOMAIN h[a] :
          IsDict(h[a][k]) => AcyclicFrom(h, h[a][k].x, path \cup {a})

Acyclic(h, v) == IsDict(v) => AcyclicFrom(h, v.x, {})

\* the nested value that v stands for: a scalar, or a mapping of such values
Leaf(v) == [leaf |-> TRUE, v |-> v, d |-> EmptyDict]
Mapping(d) == [leaf |-> FALSE, v |-> None, d |-> d]
RECURSIVE Unfold(_, _)
Unfold(h, v) ==
    IF IsDict(v)
    THEN Mapping([k \in DOMAIN h[v.x] |-> Unfold(h, h[v.x][k])])
    ELSE Leaf(v)

\* every dict of v is held by exactly one key of one dict: no object is
\* reachable by two key paths
TreeShaped(h, v) ==
    /\ IsDict(v)
    /\ Acyclic(h, v)
    /\ \A a \in Reach(h, v) :
          Cardinality(UNION {{<<b, k>> : k \in {j \in DOMAIN h[b] : h[b][j] = Ref(a)}} :
                               b \in Reach(h, v)})
             = IF a = v.x THEN 0 ELSE 1

\* the segments of a dot-path, from the positions of its dots
Segments(s) ==
    LET D == {i \in 1..Len(s) : s[i] = Sep}
        n == Cardinality(D)
        cut == [j \in 0..(n + 1) |->
                  IF j = 0 THEN 0
                  ELSE IF j = n + 1 THEN Len(s) + 1
                  ELSE CHOOSE i \in D : Cardinality({e \in D : e <= i}) = j]
    IN [j \in 1..(n + 1) |-> SubSeq(s, cut[j - 1] + 1, cut[j] - 1)]

\* whether every segment resolves through nested mappings of the value m
RECURSIVE Resolves(_, _)
Resolves(m, segs) ==
    \/ segs = <<>>
    \/ /\ ~m.leaf
       /\ Head(segs) \in DOMAIN m.d
       /\ Resolves(m.d[Head(segs)], Tail(segs))

\* the nested value at a path that resolves
RECURSIVE NestedAt(_, _)
NestedAt(m, segs) ==
    IF segs = <<>> THEN m ELSE NestedAt(m.d[Head(segs)], Tail(segs))

IsPrefix(p, q) == Len(p) <= Len(q) /\ SubSeq(q, 1, Len(p)) = p

\* the recursive merge of two mappings, as the specification states it
RECURSIVE RefMerge(_, _)
RefMerge(b, o) ==
    Mapping([k \in DOMAIN b.d \cup DOMAIN o.d |->
               IF k \notin DOMAIN o.d THEN b.d[k]
               ELSE IF k \in DOMAIN b.d /\ ~b.d[k].leaf /\ ~o.d[k].leaf
                    THEN RefMerge(b.d[k], o.d[k])
                    ELSE o.d[k]])

\* the last call was op, on a document
Did(op) == last.op = op /\ last.doc \in DOMAIN docs
Base == docs[last.doc]
Returned == last.ret.kind = "return"
\* the last call returned a new document
ReturnedDoc == Returned /\ last.ret.v.t = "doc"
Result == docs[last.ret.v.x]
\* merge was called on a mapping with a mapping
MergedMappings ==
    /\ Did("merge")
    /\ IsDict(Base.data) /\ Acyclic(pre, Base.data)
    /\ IsDict(last.value) /\ Acyclic(pre, last.value)

(***************************************************************************)
(* Properties.                                                             *)
(***************************************************************************)

\* C1: merge of a mapping into a document whose data is a mapping never
\* mutates the base: every dict reachable from base.data is as it was when
\* the call began, so base.data is equal at every nesting depth, and the call
\* returns a new document (another object, with a dict of its own as data).
MergeNeverMutatesBase ==
    MergedMappings =>
        /\ \A a \in Reach(pre, Base.data) : heap[a] = pre[a]
        /\ Unfold(heap, Base.data) = Unfold(pre, Base.data)
        /\ ReturnedDoc
        /\ last.ret.v.x # last.doc
        /\ IsDict(Result.data)
        /\ Result.data.x \notin DOMAIN pre

\* a merge in which a nested mapping of the base met a nested mapping of the
\* overrides
MergeNestedHappened ==
    /\ MergedMappings
    /\ ReturnedDoc
    /\ \E k \in DOMAIN pre[Base.data.x] \cap DOMAIN pre[last.value.x] :
          /\ IsDict(pre[Base.data.x][k])
          /\ IsDict(pre[last.value.x][k])
          /\ pre[Base.data.x][k] # pre[last.value.x][k]
          /\ DOMAIN pre[pre[last.value.x][k].x] # {}

\* C2: the data of the document merge returns is the recursive merge of the
\* two mappings: keys of both sides, nested mappings merged, any other
\* override value replacing the base value, base-only keys kept; and merging
\* the empty mapping gives a document whose to_dict() equals the base's.
MergeIsRecursiveMerge ==
    MergedMappings =>
        /\ ReturnedDoc
        /\ Unfold(heap, Result.data)
             = RefMerge(Unfold(pre, Base.data), Unfold(pre, last.value))
        /\ DOMAIN pre[last.value.x] = {} =>
             LET m == to_dict(heap, Result.data)
                 b == to_dict(heap, Base.data)
             IN /\ m.ret.kind = "return"
                /\ b.ret.kind = "return"
                /\ Unfold(m.h, m.ret.v) = Unfold(b.h, b.ret.v)

\* a merge of nested mappings where each side has a key the other lacks and
\* both have one in common
MergeBothSidesKept ==
    /\ MergedMappings
    /\ ReturnedDoc
    /\ \E k \in DOMAIN pre[Base.data.x] \cap DOMAIN pre[last.value.x] :
          /\ IsDict(pre[Base.data.x][k])
          /\ IsDict(pre[last.value.x][k])
          /\ LET b == pre[pre[Base.data.x][k].x]
                 o == pre[pre[last.value.x][k].x]
             IN /\ DOMAIN b \ DOMAIN o # {}
                /\ \E j \in DOMAIN b \cap DOMAIN o : b[j] # o[j]

\* C3: the document merge returns shares no mutable state with the base: no
\* set on the one changes a dict reachable from the data of the other.
MergeResultIsIndependent ==
    (Did("merge") /\ ReturnedDoc) =>
        \A p \in KeyPaths, v \in Values(heap) :
            /\ LET h == set(heap, Result.data, p, v)
               IN \A a \in Reach(heap, Base.data) : h[a] = heap[a]
            /\ LET h == set(heap, Base.data, p, v)
               IN \A a \in Reach(heap, Result.data) : h[a] = heap[a]

\* C4: the data of every document is a mapping, never None, however the
\* document was constructed and whatever was called since.
DataIsAlwaysMapping ==
    \A d \in DOMAIN docs : IsDict(docs[d].data)

\* C5: save reports its outcome as a boolean and raises nothing; save() with
\* no argument on a document that has an origin path writes the data there
\* and returns True when the write succeeds; with no path at all it returns
\* False.
SaveReportsBoolean ==
    Did("save") =>
        /\ Returned
        /\ last.ret.v.t = "bool"
        /\ (~PathTruthy(last.file_path) /\ ~PathTruthy(Base.file_path))
              => last.ret = Return(BoolV(FALSE))
        /\ (last.file_path = PNone /\ PathTruthy(Base.file_path) /\ last.env = "ok")
              => /\ last.ret = Return(BoolV(TRUE))
                 /\ fs[PathName(Base.file_path)] = File(Dump(heap, Base.data))

\* the key path of the last call does not resolve in the data of its document
Unresolvable ==
    \/ ~last.key_path.str
    \/ ~IsDict(Base.data)
    \/ ~Resolves(Unfold(pre, Base.data), Segments(last.key_path.s))

\* C6: get, exists_key, set, has_value and merge never raise, on any document
\* and for any argument: get returns the default, exists_key and has_value
\* return False, set changes nothing (non-string path, empty path, data that
\* is no mapping), merge returns an unmodified copy of the base (overrides or
\* data that are no mapping).
AccessorsNeverRaise ==
    /\ (Did("get") \/ Did("exists_key") \/ Did("has_value") \/ Did("set")
          \/ Did("merge"))
         => Returned
    /\ (Did("get") /\ Unresolvable) => last.ret = Return(last.value)
    /\ ((Did("exists_key") \/ Did("has_value")) /\ Unresolvable)
         => last.ret = Return(BoolV(FALSE))
    /\ (Did("set") /\ (~last.key_path.str \/ last.key_path.s = <<>>
                         \/ ~IsDict(Base.data)))
         => heap = pre
    /\ (Did("merge") /\ (~IsDict(last.value) \/ ~IsDict(Base.data)))
         => /\ ReturnedDoc
            /\ \A a \in DOMAIN pre : heap[a] = pre[a]
            /\ Unfold(heap, Result.data) = Unfold(pre, Base.data)

\* C7: on a document whose data is a mapping, get(p, d) is the nested value
\* at p when every segment of p resolves through nested mappings (also when
\* that value is None) and exists_key(p) is True; otherwise get(p, d) is d
\* and exists_key(p) is False; neither changes the data.
NavigationIsCorrect ==
    ((Did("get") \/ Did("exists_key"))
       /\ IsDict(Base.data) /\ Acyclic(pre, Base.data) /\ last.key_path.str) =>
        LET m == Unfold(pre, Base.data)
            segs == Segments(last.key_path.s)
        IN /\ heap = pre
           /\ Returned
           /\ Did("exists_key") => last.ret.v = BoolV(Resolves(m, segs))
           /\ Did("get") =>
                IF Resolves(m, segs)
                THEN Unfold(heap, last.ret.v) = NestedAt(m, segs)
                ELSE last.ret.v = last.value

\* a get of a two-segment path that resolves to None, the default being 1
GetFoundNone ==
    /\ Did("get")
    /\ IsDict(Base.data)
    /\ last.key_path.str
    /\ Len(Segments(last.key_path.s)) = 2
    /\ Resolves(Unfold(pre, Base.data), Segments(last.key_path.s))
    /\ last.value = IntV(1)
    /\ last.ret = Return(None)

\* C8: set is idempotent: after set(p, v), a second set(p, v) on the same
\* document leaves every dict as the first call left it, also when the first
\* call created or overwrote an intermediate segment.
SetIsIdempotent ==
    (Did("set") /\ Acyclic(pre, Base.data)) =>
        set(heap, Base.data, last.key_path, last.value) = heap

\* a set that overwrote an intermediate segment holding a non-mapping
SetOverwroteIntermediate ==
    /\ Did("set")
    /\ IsDict(Base.data)
    /\ last.key_path.str
    /\ Len(Segments(last.key_path.s)) = 2
    /\ LET w == Walk(pre, Base.data, <<Segments(last.key_path.s)[1]>>)
       IN w.found /\ ~IsDict(w.v)
    /\ Len(heap) = Len(pre) + 1

\* C9: set with the empty path is a no-op: it raises nothing and no dict
\* changes, so no entry keyed by the empty string appears.
EmptyPathSetIsNoOp ==
    (Did("set") /\ last.key_path = Str(<<>>)) =>
        /\ Returned
        /\ heap = pre

\* what C10 says of a set(p, v) on data, p having the segments segs
SetEffect ==
    LET data == Base.data
        segs == Segments(last.key_path.s)
    IN /\ \A d \in Scalars :
             get(heap, data, last.key_path, d) = Return(last.value)
       /\ exists_key(heap, data, last.key_path) = Return(BoolV(TRUE))
       /\ \A i \in 1..(Len(segs) - 1) :
             LET was == Walk(pre, data, SubSeq(segs, 1, i))
                 now == Walk(heap, data, SubSeq(segs, 1, i))
             IN /\ now.found
                /\ IsDict(now.v)
                /\ IF was.found /\ IsDict(was.v)
                   THEN /\ now.v = was.v
                        /\ \A k \in DOMAIN pre[was.v.x] \ {segs[i + 1]} :
                              /\ k \in DOMAIN heap[was.v.x]
                              /\ heap[was.v.x][k] = pre[was.v.x][k]
                   ELSE /\ now.v.x \notin DOMAIN pre
                        /\ DOMAIN heap[now.v.x] = {segs[i + 1]}
       /\ \A q \in Strings(MaxPathLen), d \in Scalars :
             (~IsPrefix(Segments(q), segs) /\ ~IsPrefix(segs, Segments(q)))
                => get(heap, data, Str(q), d) = get(pre, data, Str(q), d)

\* a set on a mapping with a path of non-empty segments
SetOnMapping ==
    /\ Did("set")
    /\ IsDict(Base.data)
    /\ Acyclic(pre, Base.data)
    /\ last.key_path.str
    /\ \A i \in DOMAIN Segments(last.key_path.s) :
          Segments(last.key_path.s)[i] # <<>>

\* C10 as claimed: on every document whose data is a mapping, set(p, v) with
\* non-empty segments replaces absent and non-mapping intermediate segments
\* by fresh mappings, keeps the intermediate mappings and their other keys,
\* assigns v at the final segment, so get(p) is v and exists_key(p) is True,
\* and get(q) is unchanged for every q unrelated to p by prefix.
SetAssignsAndFrames == SetOnMapping => SetEffect

\* C10 as amended: the same, on documents in whose data no mapping object
\* is reachable by two different key paths.
SetAssignsAndFramesUnshared ==
    (SetOnMapping /\ TreeShaped(pre, Base.data)) => SetEffect

\* a set on unshared data that overwrote a non-mapping intermediate segment
\* and left another key of the root alone
SetOverwroteInTree ==
    /\ SetOverwroteIntermediate
    /\ SetOnMapping
    /\ TreeShaped(pre, Base.data)
    /\ Cardinality(DOMAIN pre[Base.data.x]) = 2
====
